---- MODULE Spec2Model ----
(***************************************************************************)
(* A model of semver.py: the Version value type of Semantic Versioning     *)
(* 2.0.0, with its string grammar, its validation, its ordering and its    *)
(* bump operations.                                                        *)
(*                                                                         *)
(* A Python str is modelled as the sequence of its codepoints, so that     *)
(* the regular expressions, int(), str.format, str.split and the string    *)
(* order of the source are computed character by character.  None is the   *)
(* value NoneValue, which is no string.                                    *)
(***************************************************************************)
EXTENDS Integers, Sequences, FiniteSets, TLC

(***************************************************************************)
(* Bounds of the model.                                                    *)
(***************************************************************************)
\* major, minor and patch of the constructor's arguments range over -1..MaxNum
MaxNum == 1
\* the version strings parsed are a stem followed by at most MaxTail characters
MaxTail == 2

(***************************************************************************)
(* Characters.                                                             *)
(***************************************************************************)
\* the codepoints 43..57 in order
PunctAndDigits == "+,-./0123456789"
UpperCase == "ABCDEFGHIJKLMNOPQRSTUVWXYZ"
LowerCase == "abcdefghijklmnopqrstuvwxyz"

\* ord(): the codepoint of a one-character string
Ord(ch) ==
    IF ch = "\n" THEN 10
    ELSE CHOOSE c \in (43..57) \cup (65..90) \cup (97..122) :
            \/ c \in 43..57 /\ SubSeq(PunctAndDigits, c - 42, c - 42) = ch
            \/ c \in 65..90 /\ SubSeq(UpperCase, c - 64, c - 64) = ch
            \/ c \in 97..122 /\ SubSeq(LowerCase, c - 96, c - 96) = ch

\* a str literal as its sequence of codepoints
S(str) == [i \in 1..Len(str) |-> Ord(SubSeq(str, i, i))]

\* U+0662 ARABIC-INDIC DIGIT TWO: a decimal digit (category Nd) outside ASCII
ArabicTwo == 1634

\* None
NoneValue == << -1 >>

\* the regular expression classes of the patterns
\* [0-9]
IsAsciiDigit(c) == c \in 48..57
\* [1-9]
IsNonZeroDigit(c) == c \in 49..57
\* \d in a str pattern: any Unicode decimal digit; the ASCII digits and the
\* Arabic-Indic digits U+0660..U+0669 are the ones modelled
IsDigit(c) == c \in 48..57 \/ c \in 1632..1641
\* [a-zA-Z-]
IsLetterOrHyphen(c) == c \in 65..90 \/ c \in 97..122 \/ c = 45
\* [0-9a-zA-Z-]
IsIdentChar(c) == IsAsciiDigit(c) \/ IsLetterOrHyphen(c)

\* s[i:j] with 1-based i and exclusive j
Slice(s, i, j) == SubSeq(s, i, j - 1)

(***************************************************************************)
(* Pattern matching.  XEnds(s, i) is the set of positions at which a match *)
(* of X that starts at position i of s can end (exclusive), over all the   *)
(* ways the regular expression can match.                                  *)
(***************************************************************************)
\* 0|[1-9]\d*
NumericEnds(s, i) ==
    IF i > Len(s) THEN {}
    ELSE IF s[i] = 48 THEN {i + 1}
    ELSE IF IsNonZeroDigit(s[i])
         THEN {j \in (i + 1)..(Len(s) + 1) : \A k \in (i + 1)..(j - 1) : IsDigit(s[k])}
         ELSE {}

\* \d*[a-zA-Z-][0-9a-zA-Z-]*
AlphanumericEnds(s, i) ==
    {j \in (i + 1)..(Len(s) + 1) :
        \E m \in i..(j - 1) :
            /\ \A k \in i..(m - 1) : IsDigit(s[k])
            /\ IsLetterOrHyphen(s[m])
            /\ \A k \in (m + 1)..(j - 1) : IsIdentChar(s[k])}

\* (?:0|[1-9]\d*|\d*[a-zA-Z-][0-9a-zA-Z-]*)
PreReleaseIdentifierEnds(s, i) == NumericEnds(s, i) \cup AlphanumericEnds(s, i)

\* [0-9a-zA-Z-]+
BuildIdentifierEnds(s, i) ==
    {j \in (i + 1)..(Len(s) + 1) : \A k \in i..(j - 1) : IsIdentChar(s[k])}

RECURSIVE PreReleaseEnds(_, _)
\* identifier(?:\.identifier)* of the prerelease group
PreReleaseEnds(s, i) ==
    LET first == PreReleaseIdentifierEnds(s, i)
    IN  first \cup UNION {PreReleaseEnds(s, j + 1) : j \in {e \in first : e <= Len(s) /\ s[e] = 46}}

RECURSIVE BuildEnds(_, _)
\* identifier(?:\.identifier)* of the buildmetadata group
BuildEnds(s, i) ==
    LET first == BuildIdentifierEnds(s, i)
    IN  first \cup UNION {BuildEnds(s, j + 1) : j \in {e \in first : e <= Len(s) /\ s[e] = 46}}

\* $ without re.MULTILINE: at the end of the string, or before a newline that
\* ends the string
DollarAt(s, i) == i = Len(s) + 1 \/ (i = Len(s) /\ s[i] = 10)

\* Pattern.fullmatch: the match has to end at the end of the string
FullMatchEnd(s, i) == DollarAt(s, i) /\ i = Len(s) + 1

\* _VERSION_PRE_RELEASE_PATTERN.fullmatch(s)
_VERSION_PRE_RELEASE_PATTERN(s) ==
    \E e \in PreReleaseEnds(s, 1) : FullMatchEnd(s, e)

\* _VERSION_BUILD_PATTERN.fullmatch(s)
_VERSION_BUILD_PATTERN(s) ==
    \E e \in BuildEnds(s, 1) : FullMatchEnd(s, e)

\* _VERSION_PATTERN.fullmatch(s).groups(), for every way the pattern matches
\* the whole of s: the set is empty when fullmatch returns None
_VERSION_PATTERN(s) ==
    LET dotted(ends) == {e \in ends : e <= Len(s) /\ s[e] = 46}
        \* (?:-(?P<prerelease>...))?
        preEnds(e3) ==
            {e3} \cup (IF e3 <= Len(s) /\ s[e3] = 45 THEN PreReleaseEnds(s, e3 + 1) ELSE {})
        \* (?:\+(?P<buildmetadata>...))?$
        buildEnds(e4) ==
            {e \in {e4} \cup (IF e4 <= Len(s) /\ s[e4] = 43 THEN BuildEnds(s, e4 + 1) ELSE {}) :
                FullMatchEnd(s, e)}
        groups(e1, e2, e3, e4, e5) ==
            [major |-> Slice(s, 1, e1),
             minor |-> Slice(s, e1 + 1, e2),
             patch |-> Slice(s, e2 + 1, e3),
             pre_release |-> IF e4 = e3 THEN NoneValue ELSE Slice(s, e3 + 1, e4),
             build |-> IF e5 = e4 THEN NoneValue ELSE Slice(s, e4 + 1, e5)]
    IN  UNION {UNION {UNION {UNION {{groups(e1, e2, e3, e4, e5) : e5 \in buildEnds(e4)} :
            e4 \in preEnds(e3)} :
            e3 \in NumericEnds(s, e2 + 1)} :
            e2 \in dotted(NumericEnds(s, e1 + 1))} :
            e1 \in dotted(NumericEnds(s, 1))}

(***************************************************************************)
(* Conversions.                                                            *)
(***************************************************************************)
\* the value of a decimal digit, as int() reads it
DigitValue(c) == IF c \in 48..57 THEN c - 48 ELSE c - 1632

RECURSIVE int(_)
\* int(s) for a string of decimal digits
int(s) ==
    IF s = << >> THEN 0
    ELSE 10 * int(SubSeq(s, 1, Len(s) - 1)) + DigitValue(s[Len(s)])

RECURSIVE FormatInt(_)
\* "{:d}".format(n)
FormatInt(n) ==
    IF n < 0 THEN <<45>> \o FormatInt(-n)
    ELSE IF n < 10 THEN <<48 + n>>
    ELSE FormatInt(n \div 10) \o <<48 + (n % 10)>>

\* __str__ with the build left out of the format (a mutant of __str__)
__str__WithoutBuild(self) ==
    FormatInt(self.major) \o <<46>> \o FormatInt(self.minor) \o <<46>> \o FormatInt(self.patch)
        \o (IF self.pre_release = NoneValue THEN << >> ELSE <<45>> \o self.pre_release)

\* Version.__str__
__str__(self) ==
    FormatInt(self.major) \o <<46>> \o FormatInt(self.minor) \o <<46>> \o FormatInt(self.patch)
        \o (IF self.pre_release = NoneValue THEN << >> ELSE <<45>> \o self.pre_release)
        \o (IF self.build = NoneValue THEN << >> ELSE <<43>> \o self.build)

(***************************************************************************)
(* Construction.  A call either returns a value or raises VersionError.    *)
(***************************************************************************)
Return(v) == [raised |-> FALSE, value |-> v, args |-> << >>]
\* raise VersionError("illegal version", args)
Raise(args) == [raised |-> TRUE, value |-> << >>, args |-> args]

\* Version._validate_version: is_valid_version; the method raises when it is false
_validate_version(major, minor, patch, pre_release, build) ==
    /\ major >= 0
    /\ minor >= 0
    /\ patch >= 0
    /\ (pre_release = NoneValue \/ _VERSION_PRE_RELEASE_PATTERN(pre_release))
    /\ (build = NoneValue \/ _VERSION_BUILD_PATTERN(build))

\* Version.__init__: Version(major, minor, patch, pre_release, build)
Version(major, minor, patch, pre_release, build) ==
    IF _validate_version(major, minor, patch, pre_release, build)
    THEN Return([major |-> major, minor |-> minor, patch |-> patch,
                 pre_release |-> pre_release, build |-> build])
    ELSE Raise(<<major, minor, patch, pre_release, build>>)

\* Version.from_string
from_string(version_string) ==
    LET matches == _VERSION_PATTERN(version_string)
    IN  IF matches # {}
        THEN LET match == CHOOSE g \in matches : TRUE
             IN  Version(int(match.major), int(match.minor), int(match.patch),
                         match.pre_release, match.build)
        ELSE Raise(version_string)

(***************************************************************************)
(* Ordering.                                                               *)
(***************************************************************************)
RECURSIVE split(_)
\* str.split(".")
split(s) ==
    LET dots == {i \in 1..Len(s) : s[i] = 46}
    IN  IF dots = {} THEN <<s>>
        ELSE LET d == CHOOSE i \in dots : \A j \in dots : i <= j
             IN  <<Slice(s, 1, d)>> \o split(Slice(s, d + 1, Len(s) + 1))

RECURSIVE StrLess(_, _)
\* str < str: codepoint by codepoint, a proper prefix being the smaller
StrLess(a, b) ==
    IF b = << >> THEN FALSE
    ELSE IF a = << >> THEN TRUE
    ELSE IF a[1] # b[1] THEN a[1] < b[1]
    ELSE StrLess(Tail(a), Tail(b))

\* is_number_string: re.fullmatch("\d+", value)
is_number_string(value) == value # << >> /\ \A k \in 1..Len(value) : IsDigit(value[k])

\* the round without the conversion to int: every pair is compared as strings
\* (a mutant of CompareValues)
CompareValuesAsStrings(value1, value2) ==
    IF StrLess(value1, value2) THEN -1
    ELSE IF StrLess(value2, value1) THEN 1
    ELSE 0

\* one round of the loop of _compare_version_pre_release: -1 or +1 when it
\* returns, 0 when it goes on with the next pair
CompareValues(value1, value2) ==
    IF is_number_string(value1) /\ is_number_string(value2)
    THEN IF int(value1) < int(value2) THEN -1
         ELSE IF int(value1) > int(value2) THEN 1
         ELSE 0
    ELSE IF StrLess(value1, value2) THEN -1
         ELSE IF StrLess(value2, value1) THEN 1
         ELSE 0

RECURSIVE CompareZip(_, _, _)
\* the loop over zip(values1, values2), which stops at the end of the shorter
\* list (a mutant of CompareZipLongest)
CompareZip(values1, values2, i) ==
    IF i > Len(values1) \/ i > Len(values2) THEN 0
    ELSE LET r == CompareValues(values1[i], values2[i])
         IN  IF r # 0 THEN r ELSE CompareZip(values1, values2, i + 1)

RECURSIVE CompareZipLongest(_, _, _)
\* the loop over itertools.zip_longest(values1, values2, fillvalue=""), from
\* pair i on, and the return 0 after it
CompareZipLongest(values1, values2, i) ==
    IF i > Len(values1) /\ i > Len(values2) THEN 0
    ELSE LET value1 == IF i <= Len(values1) THEN values1[i] ELSE << >>
             value2 == IF i <= Len(values2) THEN values2[i] ELSE << >>
             r == CompareValues(value1, value2)
         IN  IF r # 0 THEN r ELSE CompareZipLongest(values1, values2, i + 1)

\* _compare_version_pre_release with None as the smallest value (a mutant of
\* _compare_version_pre_release)
_compare_version_pre_release_NoneLowest(pre_release1, pre_release2) ==
    IF pre_release1 = pre_release2 THEN 0
    ELSE IF pre_release1 = NoneValue THEN -1
    ELSE IF pre_release2 = NoneValue THEN 1
    ELSE CompareZipLongest(split(pre_release1), split(pre_release2), 1)

\* _compare_version_pre_release without its first test, the one for equal
\* pre_releases (a mutant of _compare_version_pre_release)
_compare_version_pre_release_WithoutEqualTest(pre_release1, pre_release2) ==
    IF pre_release1 = NoneValue THEN 1
    ELSE IF pre_release2 = NoneValue THEN -1
    ELSE CompareZipLongest(split(pre_release1), split(pre_release2), 1)

\* Version._compare_version_pre_release
_compare_version_pre_release(pre_release1, pre_release2) ==
    IF pre_release1 = pre_release2 THEN 0
    ELSE IF pre_release1 = NoneValue THEN 1
    ELSE IF pre_release2 = NoneValue THEN -1
    ELSE CompareZipLongest(split(pre_release1), split(pre_release2), 1)

\* the order of the cores with patch left out of the tuples (a mutant of
\* CoreLess)
CoreLessWithoutPatch(c1, c2) ==
    \/ c1[1] < c2[1]
    \/ c1[1] = c2[1] /\ c1[2] < c2[2]

\* tuple < tuple for the 3-tuples of integers version_core1, version_core2
CoreLess(c1, c2) ==
    \/ c1[1] < c2[1]
    \/ c1[1] = c2[1] /\ c1[2] < c2[2]
    \/ c1[1] = c2[1] /\ c1[2] = c2[2] /\ c1[3] < c2[3]

\* _compare_version going on to the builds when the pre-releases are equal (a
\* mutant of _compare_version)
_compare_version_WithBuild(version1, version2) ==
    LET version_core1 == <<version1.major, version1.minor, version1.patch>>
        version_core2 == <<version2.major, version2.minor, version2.patch>>
        r == _compare_version_pre_release(version1.pre_release, version2.pre_release)
    IN  IF CoreLess(version_core1, version_core2) THEN -1
        ELSE IF CoreLess(version_core2, version_core1) THEN 1
        ELSE IF r # 0 THEN r
        ELSE _compare_version_pre_release(version1.build, version2.build)

\* Version._compare_version
_compare_version(version1, version2) ==
    LET version_core1 == <<version1.major, version1.minor, version1.patch>>
        version_core2 == <<version2.major, version2.minor, version2.patch>>
    IN  IF CoreLess(version_core1, version_core2) THEN -1
        ELSE IF CoreLess(version_core2, version_core1) THEN 1
        ELSE _compare_version_pre_release(version1.pre_release, version2.pre_release)

\* tuple(self), through Version.__iter__
__iter__(self) == <<self.major, self.minor, self.patch, self.pre_release, self.build>>

(***************************************************************************)
(* hash().  CPython computes the hash of a tuple from the hashes of its    *)
(* items, taken in order, and the hash of a str from its characters and    *)
(* from a key the interpreter draws when it starts (PYTHONHASHSEED), so    *)
(* that the value differs from one process to the next.  The arithmetic is *)
(* 64 bits wide there; here it is taken modulo HashModulus, which makes    *)
(* collisions more frequent and changes nothing else.                      *)
(***************************************************************************)
HashModulus == 8191

\* the keys the interpreter can draw
HashSeeds == {0, 1}

\* hash(s) of a str in a process with the key hash_seed; hash("") is 0
HashStr(s, hash_seed) ==
    LET h[k \in 0..Len(s)] ==
            IF k = 0 THEN hash_seed ELSE (h[k - 1] * 31 + s[k]) % HashModulus
    IN  IF s = << >> THEN 0 ELSE h[Len(s)]

\* hash(t) of the 5-tuple t: items 1 to 3 are small integers, which are
\* their own hash, items 4 and 5 are None, whose hash is a constant, or a str
HashTuple(t, hash_seed) ==
    LET lane(i) == IF i <= 3 THEN t[i] % HashModulus
                   ELSE IF t[i] = NoneValue THEN HashModulus - 1
                   ELSE HashStr(t[i], hash_seed)
        acc[k \in 0..5] ==
            IF k = 0 THEN 5 ELSE (acc[k - 1] * 33 + lane(k)) % HashModulus
    IN  acc[5]

\* Version.__hash__: hash(tuple(self)), in a process with the key hash_seed
__hash__(self, hash_seed) == HashTuple(__iter__(self), hash_seed)

\* equality that leaves the build out (a mutant of __eq__)
__eq__IgnoringBuild(self, other) ==
    SubSeq(__iter__(self), 1, 4) = SubSeq(__iter__(other), 1, 4)

__eq__(self, other) == __iter__(self) = __iter__(other)
\* inequality taken from the ordering (a mutant of __ne__)
__ne__ByCompare(self, other) ==
    LET version_core1 == <<self.major, self.minor, self.patch>>
        version_core2 == <<other.major, other.minor, other.patch>>
    IN  \/ version_core1 # version_core2
        \/ self.pre_release # other.pre_release
__ne__(self, other) == __iter__(self) # __iter__(other)
__lt__(self, other) == _compare_version(self, other) < 0
__le__(self, other) == _compare_version(self, other) <= 0
__gt__(self, other) == _compare_version(self, other) > 0
__ge__(self, other) == _compare_version(self, other) >= 0

(***************************************************************************)
(* Bump operations: each returns the outcome of constructing a new value.  *)
(***************************************************************************)
bump_major(self, keep_pre_release, keep_build) ==
    Version(self.major + 1, 0, 0,
            IF keep_pre_release THEN self.pre_release ELSE NoneValue,
            IF keep_build THEN self.build ELSE NoneValue)

\* bump_minor that leaves patch as it is (a mutant of bump_minor)
bump_minor_KeepingPatch(self, keep_pre_release, keep_build) ==
    Version(self.major, self.minor + 1, self.patch,
            IF keep_pre_release THEN self.pre_release ELSE NoneValue,
            IF keep_build THEN self.build ELSE NoneValue)

bump_minor(self, keep_pre_release, keep_build) ==
    Version(self.major, self.minor + 1, 0,
            IF keep_pre_release THEN self.pre_release ELSE NoneValue,
            IF keep_build THEN self.build ELSE NoneValue)

bump_patch(self, keep_pre_release, keep_build) ==
    Version(self.major, self.minor, self.patch + 1,
            IF keep_pre_release THEN self.pre_release ELSE NoneValue,
            IF keep_build THEN self.build ELSE NoneValue)

bump_pre_release(self, pre_release) ==
    Version(self.major, self.minor, self.patch, pre_release, self.build)

bump_build(self, build) ==
    Version(self.major, self.minor, self.patch, self.pre_release, build)

(***************************************************************************)
(* The inputs of the model.                                                *)
(***************************************************************************)
\* "1" followed by ARABIC-INDIC DIGIT TWO
OneArabicTwo == S("1") \o <<ArabicTwo>>

\* the integers passed as major, minor and patch
NumArgs == -1..MaxNum

\* the values passed as pre_release: those of the tests (alpha, rc.1, "",
\* alpha+1, alpha.01) shortened, and strings with a digit outside ASCII
PreReleaseArgs ==
    {NoneValue, S("a"), S("a.1"), OneArabicTwo,
     S(""), S("a+1"), S("a.01"), S("a..1"), S("a\n"), <<ArabicTwo>>}

\* the values passed as build: those of the tests (build-777, build.1.2.3, "",
\* build+777) shortened
BuildArgs ==
    {NoneValue, S("b-7"), S("b.01"), S(""), S("b+7"), S("b..1"), S("b") \o <<ArabicTwo>>}

\* the characters version strings are made of
Alphabet == {S("\n+-.01a")[i] : i \in 1..7} \cup {ArabicTwo}

RECURSIVE StringsUpTo(_)
\* the strings over Alphabet of length n or less
StringsUpTo(n) ==
    IF n = 0 THEN {<< >>}
    ELSE LET shorter == StringsUpTo(n - 1)
         IN  shorter \cup {t \o <<c>> : t \in shorter, c \in Alphabet}

\* the version strings parsed one by one: a stem, with at most one character
\* before it and at most MaxTail characters after it
Stems == {S(""), S("1.0"), S("1.0.1"), S("1.0.1-a"), S("1.0.1+b"), S("1.0.1-a+b")}
VersionStrings ==
    {lead \o stem \o tail : lead \in StringsUpTo(1), stem \in Stems, tail \in StringsUpTo(MaxTail)}

\* the version strings passed to from_string by a caller that goes on to bump
\* the result
FromStringArgs ==
    {S("1.0.1"), S("10.0.1-a+b"), S("0.1.0-a-1+b-7"), OneArabicTwo \o S(".0.1-") \o OneArabicTwo,
     S("1.0"), S("1.0.1\n"), S("01.0.1"), S("1.0.1-a+b+7")}

(***************************************************************************)
(* State.                                                                  *)
(*   self       the receiver of the last call (NoObject for a constructor) *)
(*   call       the last call: its name and its arguments                  *)
(*   result     the outcome of the last call: a value or a VersionError    *)
(*   version1, version2, version3   the operands of a comparison           *)
(*   compared   the results of the comparison of the operands              *)
(*   version_tuple   the five fields of the receiver, read before the call *)
(*   v0         the Version a sequence of bumps started from               *)
(***************************************************************************)
VARIABLES self, call, result, version1, version2, version3, compared, version_tuple, v0

vars == <<self, call, result, version1, version2, version3, compared, version_tuple, v0>>

NoObject == [none |-> TRUE]
NoCall == [op |-> "none", args |-> << >>]
NoResult == [raised |-> FALSE, value |-> NoObject, args |-> << >>]
NotCompared == [done |-> FALSE]
NoTuple == << >>

\* the Version objects a caller holds
Live == {v \in {self} \cup (IF result.raised THEN {} ELSE {result.value}) : v # NoObject}

Init ==
    /\ self = NoObject
    /\ call = NoCall
    /\ result = NoResult
    /\ version1 = NoObject
    /\ version2 = NoObject
    /\ version3 = NoObject
    /\ compared = NotCompared
    /\ version_tuple = NoTuple
    /\ v0 = NoObject

\* Version(major, minor, patch, pre_release, build).  A constructor reads
\* nothing of the state, so its outcomes are the same from every state: the
\* model takes it as the first call of a run
New ==
    \E major \in NumArgs, minor \in NumArgs, patch \in NumArgs,
       pre_release \in PreReleaseArgs, build \in BuildArgs :
        /\ call = NoCall
        /\ self' = NoObject
        /\ call' = [op |-> "Version", args |-> <<major, minor, patch, pre_release, build>>]
        /\ result' = Version(major, minor, patch, pre_release, build)
        /\ UNCHANGED <<version1, version2, version3, compared, version_tuple, v0>>

\* Version.from_string(version_string), a constructor as well
FromString ==
    \E version_string \in FromStringArgs :
        /\ call = NoCall
        /\ self' = NoObject
        /\ call' = [op |-> "from_string", args |-> <<version_string>>]
        /\ result' = from_string(version_string)
        /\ UNCHANGED <<version1, version2, version3, compared, version_tuple, v0>>

\* the keyword arguments of bump_major, bump_minor and bump_patch: each of
\* keep_pre_release and keep_build is passed as True or False, or left out
KeywordArgs == UNION {[names -> BOOLEAN] : names \in SUBSET {"keep_pre_release", "keep_build"}}

\* the value of a keyword-only flag in the body: the one passed, and the
\* default False of the signature when it is left out
Flag(kwargs, name) == IF name \in DOMAIN kwargs THEN kwargs[name] ELSE FALSE

\* receiver.bump_major(**kwargs)
BumpMajor ==
    \E receiver \in Live, kwargs \in KeywordArgs :
        /\ receiver.major <= MaxNum
        /\ version_tuple' = __iter__(receiver)
        /\ self' = receiver
        /\ call' = [op |-> "bump_major", args |-> <<kwargs>>]
        /\ result' = bump_major(receiver, Flag(kwargs, "keep_pre_release"), Flag(kwargs, "keep_build"))
        /\ UNCHANGED <<version1, version2, version3, compared, v0>>

\* receiver.bump_minor(**kwargs)
BumpMinor ==
    \E receiver \in Live, kwargs \in KeywordArgs :
        /\ receiver.minor <= MaxNum
        /\ version_tuple' = __iter__(receiver)
        /\ self' = receiver
        /\ call' = [op |-> "bump_minor", args |-> <<kwargs>>]
        /\ result' = bump_minor(receiver, Flag(kwargs, "keep_pre_release"), Flag(kwargs, "keep_build"))
        /\ UNCHANGED <<version1, version2, version3, compared, v0>>

\* bump_patch as a method that assigns patch + 1 and the kept fields to the
\* receiver and returns the receiver (a mutant of BumpPatch)
BumpPatchInPlace ==
    \E receiver \in Live, kwargs \in KeywordArgs :
        /\ receiver.patch <= MaxNum
        /\ version_tuple' = __iter__(receiver)
        /\ result' = bump_patch(receiver, Flag(kwargs, "keep_pre_release"), Flag(kwargs, "keep_build"))
        /\ self' = result'.value
        /\ call' = [op |-> "bump_patch", args |-> <<kwargs>>]
        /\ UNCHANGED <<version1, version2, version3, compared, v0>>

\* receiver.bump_patch(**kwargs)
BumpPatch ==
    \E receiver \in Live, kwargs \in KeywordArgs :
        /\ receiver.patch <= MaxNum
        /\ version_tuple' = __iter__(receiver)
        /\ self' = receiver
        /\ call' = [op |-> "bump_patch", args |-> <<kwargs>>]
        /\ result' = bump_patch(receiver, Flag(kwargs, "keep_pre_release"), Flag(kwargs, "keep_build"))
        /\ UNCHANGED <<version1, version2, version3, compared, v0>>

\* receiver.bump_pre_release(pre_release)
BumpPreRelease ==
    \E receiver \in Live, pre_release \in PreReleaseArgs :
        /\ version_tuple' = __iter__(receiver)
        /\ self' = receiver
        /\ call' = [op |-> "bump_pre_release", args |-> <<pre_release>>]
        /\ result' = bump_pre_release(receiver, pre_release)
        /\ UNCHANGED <<version1, version2, version3, compared, v0>>

\* receiver.bump_build(build)
BumpBuild ==
    \E receiver \in Live, build \in BuildArgs :
        /\ version_tuple' = __iter__(receiver)
        /\ self' = receiver
        /\ call' = [op |-> "bump_build", args |-> <<build>>]
        /\ result' = bump_build(receiver, build)
        /\ UNCHANGED <<version1, version2, version3, compared, v0>>

Next ==
    \/ New
    \/ FromString
    \/ BumpMajor
    \/ BumpMinor
    \/ BumpPatch
    \/ BumpPreRelease
    \/ BumpBuild

Spec == Init /\ [][Next]_vars

(***************************************************************************)
(* Parsing alone: from_string applied to every string of VersionStrings.   *)
(***************************************************************************)
Parse ==
    \E version_string \in VersionStrings :
        /\ call = NoCall
        /\ self' = NoObject
        /\ call' = [op |-> "from_string", args |-> <<version_string>>]
        /\ result' = from_string(version_string)
        /\ UNCHANGED <<version1, version2, version3, compared, version_tuple, v0>>

NextParse == Parse

SpecParse == Init /\ [][NextParse]_vars

(***************************************************************************)
(* Comparison alone: the operands are Versions the constructor returned.   *)
(***************************************************************************)
\* the pre_release values of the operands: numeric identifiers (1, 2, 10, 12),
\* alphanumeric ones (a, 1a, 10a), several identifiers (a.1, a.1.1, a.a), and
\* a numeric identifier with a digit outside ASCII
ComparePreReleases ==
    {NoneValue, S("1"), S("2"), S("10"), S("12"), S("a"), S("1a"), S("10a"),
     S("a.1"), S("a.1.1"), S("a.a"), OneArabicTwo}

\* the build values of the operands
CompareBuilds == {NoneValue, S("b")}

\* the values passed to bump_build before a comparison
BumpBuildOperandArgs == {NoneValue, S("b"), S("b-1")}

\* the values Version(...) returns for the arguments given
Constructed(nums, pre_releases, builds) ==
    {r.value : r \in {c \in {Version(major, minor, patch, pre_release, build) :
                                major \in nums, minor \in nums, patch \in nums,
                                pre_release \in pre_releases, build \in builds} :
                        ~c.raised}}

Operands == Constructed(0..MaxNum, ComparePreReleases, CompareBuilds)

InitCompare ==
    /\ self = NoObject
    /\ call = NoCall
    /\ result = NoResult
    /\ version1 \in Operands
    /\ version2 \in Operands
    /\ version3 = NoObject
    /\ compared = NotCompared
    /\ version_tuple = NoTuple
    /\ v0 = NoObject

\* _compare_version, the relational operators and hash() on version1 and
\* version2, in one process
Compare ==
    \E hash_seed \in HashSeeds :
        /\ ~compared.done
        /\ compared' = [done |-> TRUE,
                        cmp |-> _compare_version(version1, version2),
                        rcmp |-> _compare_version(version2, version1),
                        self_cmp |-> _compare_version(version1, version1),
                        lt |-> __lt__(version1, version2),
                        gt |-> __gt__(version1, version2),
                        rlt |-> __lt__(version2, version1),
                        rgt |-> __gt__(version2, version1),
                        eq |-> __eq__(version1, version2),
                        ne |-> __ne__(version1, version2),
                        same_hash |-> __hash__(version1, hash_seed) = __hash__(version2, hash_seed)]
        /\ UNCHANGED <<self, call, result, version1, version2, version3, version_tuple, v0>>

\* version2 = version1.bump_build(build), to be compared with version1
BumpBuildOperand ==
    \E build \in BumpBuildOperandArgs :
        /\ ~compared.done
        /\ call = NoCall
        /\ self' = version1
        /\ call' = [op |-> "bump_build", args |-> <<build>>]
        /\ result' = bump_build(version1, build)
        /\ ~result'.raised
        /\ version2' = result'.value
        /\ UNCHANGED <<version1, version3, compared, version_tuple, v0>>

NextCompare ==
    \/ Compare
    \/ BumpBuildOperand

SpecCompare == InitCompare /\ [][NextCompare]_vars

(***************************************************************************)
(* Comparison of three operands: the versions 0.0.0 to MaxNum.0.0 with     *)
(* each pre_release of ComparePreReleases.                                 *)
(***************************************************************************)
OrderOperands == {v \in Operands : v.minor = 0 /\ v.patch = 0 /\ v.build = NoneValue}

InitOrder ==
    /\ self = NoObject
    /\ call = NoCall
    /\ result = NoResult
    /\ version1 \in OrderOperands
    /\ version2 \in OrderOperands
    /\ version3 \in OrderOperands
    /\ compared = NotCompared
    /\ version_tuple = NoTuple
    /\ v0 = NoObject

\* _compare_version on each pair of the three operands
CompareChain ==
    /\ ~compared.done
    /\ compared' = [done |-> TRUE,
                    cmp12 |-> _compare_version(version1, version2),
                    cmp23 |-> _compare_version(version2, version3),
                    cmp13 |-> _compare_version(version1, version3)]
    /\ UNCHANGED <<self, call, result, version1, version2, version3, version_tuple, v0>>

NextOrder == CompareChain

SpecOrder == InitOrder /\ [][NextOrder]_vars

(***************************************************************************)
(* Sequences of bump_major, bump_minor and bump_patch calls that start     *)
(* from a Version v0 the constructor returned.                             *)
(***************************************************************************)
\* the pre_release values of v0: absent, and with an alphanumeric and a
\* numeric identifier
BumpPreReleases == {NoneValue, S("a.1")}

BumpOperands == Constructed(0..MaxNum, BumpPreReleases, CompareBuilds)

InitBump ==
    /\ self = NoObject
    /\ call = NoCall
    /\ v0 \in BumpOperands
    /\ result = Return(v0)
    /\ version1 = NoObject
    /\ version2 = NoObject
    /\ version3 = NoObject
    /\ compared = NotCompared
    /\ version_tuple = NoTuple

NextBump ==
    \/ BumpMajor
    \/ BumpMinor
    \/ BumpPatch

SpecBump == InitBump /\ [][NextBump]_vars

(***************************************************************************)
(* The grammar of the specification (section 4.1), stated on its own:      *)
(*   digits      := "0" | [1-9] digit*          digit := 0-9               *)
(*   pr-ident    := digits | alnum-ident                                   *)
(*   alnum-ident := [0-9A-Za-z-]* [A-Za-z-] [0-9A-Za-z-]*                  *)
(*   b-ident     := [0-9A-Za-z-]+                                          *)
(*   pre-release := pr-ident ("." pr-ident)*                               *)
(*   build       := b-ident ("." b-ident)*                                 *)
(*   version     := digits "." digits "." digits ("-" pre-release)?        *)
(*                  ("+" build)?                                           *)
(***************************************************************************)
GrammarIdentChar(c) == c \in 48..57 \/ c \in 65..90 \/ c \in 97..122 \/ c = 45

GrammarDigits(t) ==
    \/ t = <<48>>
    \/ /\ t # << >>
       /\ t[1] \in 49..57
       /\ \A k \in 1..Len(t) : t[k] \in 48..57

GrammarAlnumIdent(t) ==
    /\ \A k \in 1..Len(t) : GrammarIdentChar(t[k])
    /\ \E k \in 1..Len(t) : t[k] \notin 48..57

GrammarBuildIdent(t) == t # << >> /\ \A k \in 1..Len(t) : GrammarIdentChar(t[k])

\* the dot-separated segments of s, each as <<first position, position after>>
Segments(s) ==
    {b \in (1..(Len(s) + 1)) \X (1..(Len(s) + 1)) :
        /\ b[1] <= b[2]
        /\ (b[1] = 1 \/ s[b[1] - 1] = 46)
        /\ (b[2] = Len(s) + 1 \/ s[b[2]] = 46)
        /\ \A k \in b[1]..(b[2] - 1) : s[k] # 46}

GrammarPreRelease(s) ==
    \A b \in Segments(s) :
        GrammarDigits(Slice(s, b[1], b[2])) \/ GrammarAlnumIdent(Slice(s, b[1], b[2]))

GrammarBuild(s) == \A b \in Segments(s) : GrammarBuildIdent(Slice(s, b[1], b[2]))

GrammarCore(s) ==
    /\ Cardinality(Segments(s)) = 3
    /\ \A b \in Segments(s) : GrammarDigits(Slice(s, b[1], b[2]))

\* the first position of character c in s, Len(s) + 1 when there is none
FirstIndex(s, c) ==
    CHOOSE i \in 1..(Len(s) + 1) :
        /\ i = Len(s) + 1 \/ s[i] = c
        /\ \A k \in 1..(i - 1) : s[k] # c

\* s is a version of the grammar: the build is what follows the first "+", the
\* pre-release what follows the first "-" before it, the core what is before both
GrammarVersion(s) ==
    LET plus == FirstIndex(s, 43)
        head == Slice(s, 1, plus)
        hyphen == FirstIndex(head, 45)
    IN  /\ GrammarCore(Slice(head, 1, hyphen))
        /\ hyphen <= Len(head) => GrammarPreRelease(Slice(head, hyphen + 1, Len(head) + 1))
        /\ plus <= Len(s) => GrammarBuild(Slice(s, plus + 1, Len(s) + 1))

\* the invariants of the data model (section 3) on the five fields
ValidFields(major, minor, patch, pre_release, build) ==
    /\ major >= 0
    /\ minor >= 0
    /\ patch >= 0
    /\ (pre_release = NoneValue \/ GrammarPreRelease(pre_release))
    /\ (build = NoneValue \/ GrammarBuild(build))

ValidVersion(v) == ValidFields(v.major, v.minor, v.patch, v.pre_release, v.build)

\* every character of s is an ASCII character
Ascii(s) == \A k \in 1..Len(s) : s[k] < 128

(***************************************************************************)
(* Claims.                                                                 *)
(***************************************************************************)
\* C1: after any sequence of constructions and bumps, every Version that
\* exists has major, minor, patch >= 0, a pre_release that is None or matches
\* the pre-release grammar, and a build that is None or matches the build
\* grammar.
C1_NoInvalidVersion == \A v \in Live : ValidVersion(v)

\* What does hold of C1: every Version that exists passed _validate_version,
\* and is valid by the grammar when its pre_release has ASCII characters only.
C1_ValidatedOnEveryPath ==
    \A v \in Live :
        /\ _validate_version(v.major, v.minor, v.patch, v.pre_release, v.build)
        /\ Ascii(v.pre_release) => ValidVersion(v)

\* C2: from_string raises VersionError, and returns no Version, for every
\* string that does not match the version grammar in full.
C2_RejectsNonGrammar ==
    call.op = "from_string" /\ ~GrammarVersion(call.args[1])
        => result.raised /\ result.args = call.args[1]

\* What does hold of C2: an ASCII string that is no version of the grammar is
\* rejected, and a version of the grammar is accepted.
C2_AsciiRejected ==
    call.op = "from_string" /\ Ascii(call.args[1])
        => (result.raised <=> ~GrammarVersion(call.args[1]))

\* C3: Version(major, minor, patch, pre_release, build) raises VersionError
\* carrying the 5-tuple whenever a component is invalid, and succeeds when all
\* five are valid.
C3_ConstructorRaisesIffInvalid ==
    call.op = "Version"
        => /\ result.raised <=>
                ~ValidFields(call.args[1], call.args[2], call.args[3], call.args[4], call.args[5])
           /\ result.raised => result.args = call.args

\* What does hold of C3: the same, for a pre_release of ASCII characters.
C3_AsciiConstructor ==
    call.op = "Version" /\ Ascii(call.args[4])
        => /\ result.raised <=>
                ~ValidFields(call.args[1], call.args[2], call.args[3], call.args[4], call.args[5])
           /\ result.raised => result.args = call.args

\* C4: round trip: for every Version v that exists, from_string(str(v))
\* succeeds and returns a Version equal to v in all five fields.
C4_RoundTrip ==
    \A v \in Live :
        LET r == from_string(__str__(v))
        IN  /\ ~r.raised
            /\ r.value.major = v.major
            /\ r.value.minor = v.minor
            /\ r.value.patch = v.patch
            /\ r.value.pre_release = v.pre_release
            /\ r.value.build = v.build

\* C4 witness: a bump returned a Version with a two-digit major, a pre_release
\* and a build
C4_Witness ==
    /\ call.op = "bump_patch"
    /\ ~result.raised
    /\ result.value.major >= 10
    /\ result.value.pre_release # NoneValue
    /\ result.value.build # NoneValue

(***************************************************************************)
(* The ordering rules of the specification (section 4.3), stated on their  *)
(* own for the claims about comparison.                                    *)
(***************************************************************************)
SameCore(v1, v2) == v1.major = v2.major /\ v1.minor = v2.minor /\ v1.patch = v2.patch

\* the identifiers of a pre-release, in order
Identifiers(s) ==
    LET segs == Segments(s)
        nth(k) == CHOOSE b \in segs : Cardinality({c \in segs : c[1] < b[1]}) = k - 1
    IN  [k \in 1..Cardinality(segs) |-> Slice(s, nth(k)[1], nth(k)[2])]

PureDigits(t) == t # << >> /\ \A k \in 1..Len(t) : t[k] \in 48..57

\* the integer a string of ASCII digits denotes
DecimalValue(t) ==
    LET value[k \in 0..Len(t)] == IF k = 0 THEN 0 ELSE 10 * value[k - 1] + (t[k] - 48)
    IN  value[Len(t)]

\* a is before b in codepoint order
LexLess(a, b) ==
    \E k \in 1..Len(b) :
        /\ \A j \in 1..(k - 1) : j <= Len(a) /\ a[j] = b[j]
        /\ k = Len(a) + 1 \/ (k <= Len(a) /\ a[k] < b[k])

\* the identifier-pair rule: integers when both are pure digits, strings otherwise
PairOrder(x, y) ==
    IF PureDigits(x) /\ PureDigits(y)
    THEN IF DecimalValue(x) < DecimalValue(y) THEN -1
         ELSE IF DecimalValue(x) > DecimalValue(y) THEN 1
         ELSE 0
    ELSE IF LexLess(x, y) THEN -1
         ELSE IF LexLess(y, x) THEN 1
         ELSE 0

BothValid == ValidVersion(version1) /\ ValidVersion(version2)

\* C5: comparison is transitive: compare(a, b) = -1 and compare(b, c) = -1
\* imply compare(a, c) = -1, for all valid Versions a, b, c.
C5_Transitive ==
    /\ compared.done
    /\ ValidVersion(version1) /\ ValidVersion(version2) /\ ValidVersion(version3)
    /\ compared.cmp12 = -1
    /\ compared.cmp23 = -1
    => compared.cmp13 = -1

\* What does hold of C5: transitivity through operands whose first differing
\* identifiers are not a mix of pure digits and letters, here the ones with a
\* single identifier of one kind
OneKind(v) ==
    v.pre_release = NoneValue \/ PureDigits(v.pre_release)
C5_TransitiveOnNumeric ==
    /\ compared.done
    /\ OneKind(version1) /\ OneKind(version2) /\ OneKind(version3)
    /\ ValidVersion(version1) /\ ValidVersion(version2) /\ ValidVersion(version3)
    /\ compared.cmp12 = -1
    /\ compared.cmp23 = -1
    => compared.cmp13 = -1

\* C6: for all valid Versions v1 and v2, exactly one of v1 < v2, v1 == v2,
\* v1 > v2 holds.
C6_ExactlyOne ==
    compared.done /\ BothValid
        => \/ compared.lt /\ ~compared.eq /\ ~compared.gt
           \/ ~compared.lt /\ compared.eq /\ ~compared.gt
           \/ ~compared.lt /\ ~compared.eq /\ compared.gt

\* v1 and v2 differ in the build and in nothing else
DifferOnlyInBuild(v1, v2) ==
    SameCore(v1, v2) /\ v1.pre_release = v2.pre_release /\ v1.build # v2.build

\* C6, amended: for all valid Versions v1 and v2, exactly one of v1 < v2,
\* v1 == v2, v1 > v2 holds, unless v1 and v2 differ only in build: then none
\* of the three holds.
C6_ExactlyOneUnlessBuildDiffers ==
    compared.done /\ BothValid
        => IF DifferOnlyInBuild(version1, version2)
           THEN ~compared.lt /\ ~compared.eq /\ ~compared.gt
           ELSE \/ compared.lt /\ ~compared.eq /\ ~compared.gt
                \/ ~compared.lt /\ compared.eq /\ ~compared.gt
                \/ ~compared.lt /\ ~compared.eq /\ compared.gt

\* C6 witness: two valid Versions with a pre_release that differ only in build
\* were compared
C6_Witness ==
    /\ compared.done
    /\ BothValid
    /\ DifferOnlyInBuild(version1, version2)
    /\ version1.pre_release # NoneValue

\* C7: build never takes part in ordering: Versions with the same major,
\* minor, patch and pre_release compare 0 whatever their builds, and
\* compare(v, v.bump_build(x)) is 0 for every valid build x and for x absent.
C7_BuildIrrelevant ==
    compared.done
        => /\ SameCore(version1, version2) /\ version1.pre_release = version2.pre_release
                => compared.cmp = 0 /\ compared.rcmp = 0
           /\ call.op = "bump_build" => compared.cmp = 0 /\ compared.rcmp = 0

\* C7 witness: v was compared with v.bump_build(x), both builds present and
\* different
C7_Witness ==
    /\ compared.done
    /\ call.op = "bump_build"
    /\ version2.build = call.args[1]
    /\ version1.build # NoneValue
    /\ version2.build # NoneValue
    /\ version1.build # version2.build

\* C8: with the same (major, minor, patch), a Version without pre_release
\* compares greater than one with a pre_release (+1 when only the left one has
\* none, -1 when only the right one has none), and two without compare 0.
C8_ReleaseOutranksPreRelease ==
    compared.done /\ SameCore(version1, version2)
        => /\ version1.pre_release = NoneValue /\ version2.pre_release # NoneValue
                => compared.cmp = 1 /\ compared.gt /\ ~compared.lt
           /\ version1.pre_release # NoneValue /\ version2.pre_release = NoneValue
                => compared.cmp = -1 /\ compared.lt /\ ~compared.gt
           /\ version1.pre_release = NoneValue /\ version2.pre_release = NoneValue
                => compared.cmp = 0

\* C8 witness: a release was compared with a pre-release of the same core
\* that has several identifiers
C8_Witness ==
    /\ compared.done
    /\ SameCore(version1, version2)
    /\ version1.pre_release = NoneValue
    /\ version2.pre_release = S("a.1.1")
    /\ compared.cmp = 1

\* C9: for two valid Versions with equal core and different pre_releases, both
\* present, the identifiers are compared position by position, as integers
\* when both are pure digits and as strings in codepoint order otherwise; the
\* first position with a non-zero result decides, and compare returns exactly
\* -1 or +1.
C9_IdentifierPairRule ==
    /\ compared.done
    /\ BothValid
    /\ SameCore(version1, version2)
    /\ version1.pre_release # NoneValue
    /\ version2.pre_release # NoneValue
    /\ version1.pre_release # version2.pre_release
    => LET ids1 == Identifiers(version1.pre_release)
           ids2 == Identifiers(version2.pre_release)
           shorter == IF Len(ids1) < Len(ids2) THEN Len(ids1) ELSE Len(ids2)
           deciding == {i \in 1..shorter :
                            /\ PairOrder(ids1[i], ids2[i]) # 0
                            /\ \A j \in 1..(i - 1) : PairOrder(ids1[j], ids2[j]) = 0}
       IN  /\ compared.cmp \in {-1, 1}
           /\ \A i \in deciding : compared.cmp = PairOrder(ids1[i], ids2[i])

\* C9 witness: "2" was compared with "10", which the order of integers and the
\* order of strings decide differently
C9_Witness ==
    /\ compared.done
    /\ SameCore(version1, version2)
    /\ version1.pre_release = S("2")
    /\ version2.pre_release = S("10")
    /\ compared.cmp = -1

\* C10: for two valid Versions with equal core, when the identifiers of one
\* pre_release are a strict prefix of the identifiers of the other, the
\* shorter one compares strictly less than the longer one.
C10_PrefixRule ==
    /\ compared.done
    /\ BothValid
    /\ SameCore(version1, version2)
    /\ version1.pre_release # NoneValue
    /\ version2.pre_release # NoneValue
    => LET ids1 == Identifiers(version1.pre_release)
           ids2 == Identifiers(version2.pre_release)
       IN  /\ Len(ids1) < Len(ids2) /\ (\A i \in 1..Len(ids1) : ids1[i] = ids2[i])
                => compared.cmp = -1 /\ compared.rcmp = 1 /\ compared.lt
           /\ Len(ids2) < Len(ids1) /\ (\A i \in 1..Len(ids2) : ids1[i] = ids2[i])
                => compared.cmp = 1 /\ compared.rcmp = -1 /\ compared.gt

\* C10 witness: "a" was compared with "a.a", whose extra identifier is
\* alphanumeric
C10_Witness ==
    /\ compared.done
    /\ SameCore(version1, version2)
    /\ version1.pre_release = S("a")
    /\ version2.pre_release = S("a.a")
    /\ compared.cmp = -1

\* the first position at which the identifier sequences ids1 and ids2 both
\* have an identifier and these differ (the empty set when there is none)
FirstDifference(ids1, ids2) ==
    LET shorter == IF Len(ids1) < Len(ids2) THEN Len(ids1) ELSE Len(ids2)
    IN  {i \in 1..shorter :
            /\ ids1[i] # ids2[i]
            /\ \A j \in 1..(i - 1) : ids1[j] = ids2[j]}

\* both operands are valid, have the same core and a pre_release each
SameCoreBothPreReleases ==
    /\ BothValid
    /\ SameCore(version1, version2)
    /\ version1.pre_release # NoneValue
    /\ version2.pre_release # NoneValue

\* C11: for two valid Versions with equal core whose pre_release identifier
\* sequences first differ at a position where one identifier is numeric and
\* the other alphanumeric, the Version with the numeric identifier compares
\* lower than the one with the alphanumeric identifier.
C11_NumericBelowAlphanumeric ==
    compared.done /\ SameCoreBothPreReleases
        => LET ids1 == Identifiers(version1.pre_release)
               ids2 == Identifiers(version2.pre_release)
           IN  \A i \in FirstDifference(ids1, ids2) :
                    /\ PureDigits(ids1[i]) /\ GrammarAlnumIdent(ids2[i])
                            => compared.cmp = -1 /\ compared.lt
                    /\ GrammarAlnumIdent(ids1[i]) /\ PureDigits(ids2[i])
                            => compared.cmp = 1 /\ compared.gt

\* What does hold of C11: the numeric identifier is the lower one when the
\* alphanumeric identifier begins with a letter, which every digit precedes
\* in codepoint order.
C11_NumericBelowLetter ==
    compared.done /\ SameCoreBothPreReleases
        => LET ids1 == Identifiers(version1.pre_release)
               ids2 == Identifiers(version2.pre_release)
           IN  \A i \in FirstDifference(ids1, ids2) :
                    /\ PureDigits(ids1[i]) /\ GrammarAlnumIdent(ids2[i]) /\ ids2[i][1] >= 65
                            => compared.cmp = -1 /\ compared.lt
                    /\ GrammarAlnumIdent(ids1[i]) /\ PureDigits(ids2[i]) /\ ids1[i][1] >= 65
                            => compared.cmp = 1 /\ compared.gt

(***************************************************************************)
(* Claims about the bump operations.                                       *)
(***************************************************************************)
BumpOps == {"bump_major", "bump_minor", "bump_patch"}

\* the receiver as it was before the call
Before ==
    [major |-> version_tuple[1], minor |-> version_tuple[2], patch |-> version_tuple[3],
     pre_release |-> version_tuple[4], build |-> version_tuple[5]]

\* the flag name was passed as True in the call
Kept(name) == name \in DOMAIN call.args[1] /\ call.args[1][name]

\* the five fields the specification (section 4.4) gives the result of the
\* bump op of v: the core incremented and reset, pre_release and build those
\* of v when kept and absent otherwise
Bumped(op, v, keep_pre_release, keep_build) ==
    [major |-> IF op = "bump_major" THEN v.major + 1 ELSE v.major,
     minor |-> IF op = "bump_major" THEN 0
               ELSE IF op = "bump_minor" THEN v.minor + 1 ELSE v.minor,
     patch |-> IF op = "bump_patch" THEN v.patch + 1 ELSE 0,
     pre_release |-> IF keep_pre_release THEN v.pre_release ELSE NoneValue,
     build |-> IF keep_build THEN v.build ELSE NoneValue]

\* C12: reset-on-bump: for every valid Version v = (M, m, p, pre, b) and every
\* combination of the flags, bump_major returns (M+1, 0, 0, pre', b'),
\* bump_minor (M, m+1, 0, pre', b') and bump_patch (M, m, p+1, pre', b'), with
\* pre' = pre if keep_pre_release else absent and b' = b if keep_build else
\* absent; a flag that is not passed counts as false.
C12_ResetOnBump ==
    call.op \in BumpOps /\ ValidVersion(Before)
        => /\ ~result.raised
           /\ result.value = Bumped(call.op, Before, Kept("keep_pre_release"), Kept("keep_build"))

\* C12 witness: bump_minor was called on a Version with patch > 0, a
\* pre_release and a build, keeping the build and passing no keep_pre_release
C12_Witness ==
    /\ call.op = "bump_minor"
    /\ ValidVersion(Before)
    /\ Before.patch > 0
    /\ Before.pre_release # NoneValue
    /\ Before.build # NoneValue
    /\ DOMAIN call.args[1] = {"keep_build"}
    /\ call.args[1]["keep_build"]
    /\ ~result.raised
    /\ result.value.patch = 0
    /\ result.value.pre_release = NoneValue
    /\ result.value.build = Before.build

\* C13: bump does not mutate the receiver: after v2 = v1.bump_major(),
\* v1.bump_minor() or v1.bump_patch(), with any keep flags, all five fields of
\* v1 are the same as before the call, v2 is a distinct value, and v1 != v2.
C13_ReceiverUnchanged ==
    call.op \in BumpOps
        => /\ __iter__(self) = version_tuple
           /\ ~result.raised
           /\ result.value # self
           /\ __ne__(self, result.value)
           /\ ~__eq__(self, result.value)

\* C13 witness: bump_patch returned, called with both flags True on a Version
\* with a pre_release and a build, so that the result differs in patch only
C13_Witness ==
    /\ call.op = "bump_patch"
    /\ Kept("keep_pre_release")
    /\ Kept("keep_build")
    /\ version_tuple[4] # NoneValue
    /\ version_tuple[5] # NoneValue
    /\ ~result.raised
    /\ result.value.pre_release = version_tuple[4]
    /\ result.value.build = version_tuple[5]

\* what the specification (section 4.4) says of receiver.bump_pre_release(x)
\* and receiver.bump_build(y) for an argument that is ok (absent or valid by
\* the grammar) and for one that is not
BumpFieldOutcome(expected, ok) ==
    IF ok
    THEN ~result.raised /\ result.value = expected
    ELSE result.raised /\ Live = {self} /\ __iter__(self) = version_tuple

\* C14: bump_pre_release(x) on a valid Version v returns (v.major, v.minor,
\* v.patch, x, v.build) when x is absent or a valid pre-release string, and
\* bump_build(y) returns (v.major, v.minor, v.patch, v.pre_release, y) when y
\* is absent or a valid build string; when x or y is an invalid string the
\* call raises VersionError, no new Version is produced and v is unchanged.
C14_BumpPreReleaseAndBuild ==
    /\ call.op = "bump_pre_release" /\ ValidVersion(Before)
            => BumpFieldOutcome([Before EXCEPT !.pre_release = call.args[1]],
                                call.args[1] = NoneValue \/ GrammarPreRelease(call.args[1]))
    /\ call.op = "bump_build" /\ ValidVersion(Before)
            => BumpFieldOutcome([Before EXCEPT !.build = call.args[1]],
                                call.args[1] = NoneValue \/ GrammarBuild(call.args[1]))

\* What does hold of C14: the same, for arguments of ASCII characters.
C14_AsciiBump ==
    /\ call.op = "bump_pre_release" /\ ValidVersion(Before) /\ Ascii(call.args[1])
            => BumpFieldOutcome([Before EXCEPT !.pre_release = call.args[1]],
                                call.args[1] = NoneValue \/ GrammarPreRelease(call.args[1]))
    /\ call.op = "bump_build" /\ ValidVersion(Before)
            => BumpFieldOutcome([Before EXCEPT !.build = call.args[1]],
                                call.args[1] = NoneValue \/ GrammarBuild(call.args[1]))

(***************************************************************************)
(* Claims about equality, hash and the algebra of the comparison.          *)
(***************************************************************************)
\* the five fields of v1 and v2 are equal, field by field
SameFields(v1, v2) ==
    /\ v1.major = v2.major
    /\ v1.minor = v2.minor
    /\ v1.patch = v2.patch
    /\ v1.pre_release = v2.pre_release
    /\ v1.build = v2.build

\* C15: equality and hash are functions of all five fields: for all valid
\* Versions v1 and v2, v1 == v2 holds exactly when major, minor, patch,
\* pre_release and build are all equal (two that differ only in build are not
\* equal), v1 != v2 is its negation, and v1 == v2 implies hash(v1) == hash(v2).
C15_EqualityAndHash ==
    compared.done /\ BothValid
        => /\ compared.eq <=> SameFields(version1, version2)
           /\ compared.ne <=> ~compared.eq
           /\ DifferOnlyInBuild(version1, version2) => ~compared.eq /\ compared.ne
           /\ compared.eq => compared.same_hash

\* C15 witness: two equal Versions with a pre_release and a build were
\* compared and hashed
C15_Witness ==
    /\ compared.done
    /\ BothValid
    /\ SameFields(version1, version2)
    /\ version1.pre_release # NoneValue
    /\ version1.build # NoneValue
    /\ compared.eq
    /\ ~compared.ne
    /\ compared.same_hash

\* C16: comparison is antisymmetric and reflexive: for all valid Versions v1
\* and v2, compare(v1, v2) == -compare(v2, v1), so that v1 < v2 and v2 < v1
\* never both hold and v1 < v2 exactly when v2 > v1; and compare(v, v) == 0
\* for every valid v.
C16_AntisymmetricReflexive ==
    compared.done /\ BothValid
        => /\ compared.cmp = -compared.rcmp
           /\ ~(compared.lt /\ compared.rlt)
           /\ compared.lt <=> compared.rgt
           /\ compared.gt <=> compared.rlt
           /\ compared.self_cmp = 0
           /\ SameFields(version1, version2) => compared.cmp = 0

\* C16 witness: "10" was compared with "2" in both directions, +1 one way and
\* -1 the other
C16_Witness ==
    /\ compared.done
    /\ SameCore(version1, version2)
    /\ version1.pre_release = S("10")
    /\ version2.pre_release = S("2")
    /\ compared.cmp = 1
    /\ compared.rcmp = -1
    /\ compared.rlt
    /\ compared.self_cmp = 0

\* C17: bump monotonicity: starting from any valid Version v0, every call in
\* any finite sequence of bump_major, bump_minor and bump_patch calls, with
\* any flags, succeeds, each result compares strictly greater than the
\* Version it was derived from, and the final result compares strictly
\* greater than v0, whatever the pre_release and build fields.
C17_BumpMonotonic ==
    call.op \in BumpOps /\ ValidVersion(v0)
        => /\ ~result.raised
           /\ _compare_version(result.value, self) = 1
           /\ __gt__(result.value, self)
           /\ __lt__(self, result.value)
           /\ _compare_version(result.value, v0) = 1
           /\ __gt__(result.value, v0)
           /\ __lt__(v0, result.value)

\* C17 witness: after a bump_major and later calls, bump_patch returned a
\* Version that kept the pre_release and the build of v0
C17_Witness ==
    /\ call.op = "bump_patch"
    /\ ~result.raised
    /\ self # v0
    /\ self.major > v0.major
    /\ self.minor > 0
    /\ v0.pre_release # NoneValue
    /\ v0.build # NoneValue
    /\ result.value.pre_release = v0.pre_release
    /\ result.value.build = v0.build

(***************************************************************************)
(* Claims about parsing and formatting.                                    *)
(***************************************************************************)
\* from_string returned, for the string s, a Version whose __str__ is s and
\* whose pre_release is the text between the first "-" and the "+" (or the
\* end) and whose build is the text after the "+"
ParsedVerbatim(s) ==
    LET plus == FirstIndex(s, 43)
        head == Slice(s, 1, plus)
        hyphen == FirstIndex(head, 45)
        core == Slice(head, 1, hyphen)
        v == result.value
    IN  /\ __str__(v) = s
        /\ FormatInt(v.major) \o <<46>> \o FormatInt(v.minor) \o <<46>> \o FormatInt(v.patch) = core
        /\ v.pre_release = IF hyphen <= Len(head) THEN Slice(head, hyphen + 1, Len(head) + 1)
                           ELSE NoneValue
        /\ v.build = IF plus <= Len(s) THEN Slice(s, plus + 1, Len(s) + 1) ELSE NoneValue

\* C18: reverse round trip: for every string s that from_string accepts,
\* str(from_string(s)) == s: major, minor and patch are the integers the three
\* digit groups denote, pre_release is exactly the text between the first "-"
\* after the core and the "+" (or the end), and build exactly the text after
\* the "+", hyphens included.
C18_ReverseRoundTrip ==
    call.op = "from_string" /\ ~result.raised => ParsedVerbatim(call.args[1])

\* What does hold of C18: the same, for the accepted strings of ASCII
\* characters.
C18_AsciiReverseRoundTrip ==
    call.op = "from_string" /\ ~result.raised /\ Ascii(call.args[1])
        => ParsedVerbatim(call.args[1])

====
